---- MODULE Spec2Model ----
(***************************************************************************)
(* Model of src/src/lib.rs: the resumable JSON Tokenizer (scratch, state,  *)
(* index) and the Parser that owns one (stack of F frames).                *)
(*                                                                         *)
(* A Rust str is modelled as a sequence of characters, each with its UTF-8 *)
(* width: str slicing (data[a..b]) takes BYTE offsets and panics when an   *)
(* offset is not a character boundary, while chars().enumerate() counts    *)
(* CHARACTERS.  The code adds the two, so both are kept apart here.        *)
(***************************************************************************)
EXTENDS Integers, Sequences, FiniteSets, TLC

VARIABLES
  doc,      \* the whole document the caller will supply
  rest,     \* the part of doc not yet handed over
  data,     \* the buffer passed to the calls
  scratch,  \* Tokenizer.scratch
  state,    \* Tokenizer.state
  index,    \* Tokenizer.index
  stack,    \* Parser.stack
  res,      \* what the last tokenize call returned
  pres,     \* what the last parse call returned
  op,       \* the last operation: "init", "feed", "tokenize" or "parse"
  pre,      \* scratch, state, index and stack on entry of the last call
  tokens,   \* the tokens returned so far, in order
  events,   \* the Ok results of parse so far, in order
  fatal     \* a call has returned WrongFormat or WrongEscapeSequence

vars == <<doc, rest, data, scratch, state, index, stack, res, pres,
          op, pre, tokens, events, fatal>>

----------------------------------------------------------------------------
(* Bounds of the model *)

\* longest string-literal body (characters after the opening quote)
MaxBody == 4

\* longest document made of punctuation, whitespace and stray characters
MaxStruct == 3

\* most lexemes in a document given to the parser
MaxLexemes == 3

----------------------------------------------------------------------------
(* Characters *)

Quote == "\""

Backslash == "\\"

\* U+00E9, a two-byte letter
EAcute == "e9"

\* U+00A0, a two-byte character for which char::is_whitespace is true
NBSP == "a0"

Structural == {"{", "}", "[", "]", ":", ","}

StrChar == {"n", "u", EAcute, Backslash, Quote}

StructChar == Structural \cup {" ", NBSP, Quote, "x"}

Char == StrChar \cup StructChar

\* char::len_utf8: the number of bytes the character takes in a str
Width(c) == IF c \in {EAcute, NBSP} THEN 2 ELSE 1

\* char::is_whitespace
is_whitespace(c) == c \in {" ", NBSP}

\* the match of tokenize_base on a structural character
JTOf(c) ==
  CASE c = "{" -> "OpenObject"
    [] c = "}" -> "CloseObject"
    [] c = "[" -> "OpenArray"
    [] c = "]" -> "CloseArray"
    [] c = ":" -> "Colon"
    [] c = "," -> "Comma"

\* the escape table of tokenize_start_escaping (without u)
Escapable == {Quote, Backslash, "/", "b", "f", "n", "r", "t"}

to_add(c) ==
  CASE c = Quote -> Quote
    [] c = Backslash -> Backslash
    [] c = "/" -> "/"
    [] c = "b" -> "0x08"
    [] c = "f" -> "0x0c"
    [] c = "n" -> "LF"
    [] c = "r" -> "CR"
    [] c = "t" -> "TAB"

----------------------------------------------------------------------------
(* str: byte offsets over a sequence of characters *)

RECURSIVE ByteLen(_)
\* str::len
ByteLen(s) == IF s = <<>> THEN 0 ELSE Width(Head(s)) + ByteLen(Tail(s))

\* byte offset of the j-th character (1-based); j = Len(s)+1 is the end
Off(s, j) == ByteLen(SubSeq(s, 1, j - 1))

\* str::is_char_boundary
IsCharBoundary(s, k) == \E j \in 1..(Len(s) + 1) : Off(s, j) = k

\* position (1-based) of the character that starts at byte offset k
CharAt(s, k) == CHOOSE j \in 1..(Len(s) + 1) : Off(s, j) = k

\* data[k..] does not panic
FromOk(s, k) == IsCharBoundary(s, k)

\* data[k..]
StrFrom(s, k) == SubSeq(s, CharAt(s, k), Len(s))

\* data[b..e] does not panic
SliceOk(s, b, e) == b <= e /\ IsCharBoundary(s, b) /\ IsCharBoundary(s, e)

\* data[b..e]
StrSlice(s, b, e) == SubSeq(s, CharAt(s, b), CharAt(s, e) - 1)

\* position (0-based, as enumerate gives it) of the first character of r in
\* the set S, or Len(r) when there is none
FirstIn(r, S) ==
  IF \E j \in 1..Len(r) : r[j] \in S
    THEN (CHOOSE j \in 1..Len(r) : r[j] \in S /\ \A h \in 1..(j - 1) : r[h] \notin S) - 1
    ELSE Len(r)

----------------------------------------------------------------------------
(* TokenizerState *)

Base == <<"Base">>

ZeroCopyString == <<"ZeroCopyString">>

StartEscaping == <<"StartEscaping">>

CopyingString == <<"CopyingString">>

ReadingHex(acc, left) == <<"ReadingHex", acc, left>>

(* Result<JValues, TokenizerErrors>, plus the outcome of a panic.  `from`  *)
(* tells which buffer the slice borrows: the caller's data or scratch.     *)
NoRes == [kind |-> "None", jt |-> "", slice |-> <<>>, from |-> "", err |-> "", pos |-> 0]

OkRes(jt, slice, from) ==
  [kind |-> "Ok", jt |-> jt, slice |-> slice, from |-> from, err |-> "", pos |-> 0]

ErrRes(err, pos) ==
  [kind |-> "Err", jt |-> "", slice |-> <<>>, from |-> "", err |-> err, pos |-> pos]

PanicRes == [kind |-> "Panic", jt |-> "", slice |-> <<>>, from |-> "", err |-> "", pos |-> 0]

\* the Tokenizer struct
Tk(sc, st, ix) == [scratch |-> sc, state |-> st, index |-> ix]

\* a call's outcome: the tokenizer as the call leaves it, and what it returns
Out(tk, r) == [tk |-> tk, res |-> r]

----------------------------------------------------------------------------
(* impl Tokenizer *)

RECURSIVE tokenize_start_escaping(_, _), tokenize_copying_string(_, _)

\* unimplemented!()
tokenize_reading_hex(tk, d) == Out(tk, PanicRes)

tokenize_start_escaping(tk, d) ==
  IF ~FromOk(d, tk.index) THEN Out(tk, PanicRes)
  ELSE LET r == StrFrom(d, tk.index) IN
    IF r = <<>> THEN Out(tk, ErrRes("NeedMoreData", 0))
    ELSE LET c == r[1] IN
      IF c \in Escapable
        THEN tokenize_copying_string(
               Tk(Append(tk.scratch, to_add(c)), CopyingString, tk.index + 1), d)
      ELSE IF c = "u"
        THEN tokenize_reading_hex(Tk(tk.scratch, ReadingHex(0, 4), tk.index + 1), d)
      ELSE Out(tk, ErrRes("WrongEscapeSequence", tk.index))

tokenize_copying_string(tk, d) ==
  IF ~FromOk(d, tk.index) THEN Out(tk, PanicRes)
  ELSE LET r == StrFrom(d, tk.index)
           i == FirstIn(r, {Quote, Backslash})
           pushed == tk.scratch \o SubSeq(r, 1, i)
       IN
    IF i = Len(r)
      THEN Out(Tk(pushed, CopyingString, ByteLen(d)), ErrRes("NeedMoreData", 0))
    ELSE IF r[i + 1] = Quote
      THEN Out(Tk(pushed, Base, tk.index + i + 1), OkRes("JString", pushed, "scratch"))
    ELSE tokenize_start_escaping(Tk(pushed, StartEscaping, tk.index + i + 1), d)

\* tokenize_zero_copy_string without self.state = TokenizerState::Base at the
\* closing quote
tokenize_zero_copy_string_keeps_state(tk, d) ==
  IF ~FromOk(d, tk.index) THEN Out(tk, PanicRes)
  ELSE LET begin == tk.index
           r == StrFrom(d, tk.index)
           i == FirstIn(r, {Quote, Backslash})
           next == tk.index + i + 1
       IN
    IF i = Len(r)
      THEN Out(Tk(StrFrom(d, begin), CopyingString, ByteLen(d)), ErrRes("NeedMoreData", 0))
    ELSE IF r[i + 1] = Quote
      THEN IF SliceOk(d, begin, next - 1)
             THEN Out(Tk(tk.scratch, tk.state, next),
                      OkRes("JString", StrSlice(d, begin, next - 1), "data"))
             ELSE Out(Tk(tk.scratch, tk.state, next), PanicRes)
    ELSE IF SliceOk(d, begin, next - 1)
      THEN tokenize_start_escaping(
             Tk(StrSlice(d, begin, next - 1), StartEscaping, next), d)
      ELSE Out(Tk(<<>>, tk.state, next), PanicRes)

\* tokenize_zero_copy_string without self.scratch.truncate(0)
tokenize_zero_copy_string_no_truncate(tk, d) ==
  IF ~FromOk(d, tk.index) THEN Out(tk, PanicRes)
  ELSE LET begin == tk.index
           r == StrFrom(d, tk.index)
           i == FirstIn(r, {Quote, Backslash})
           next == tk.index + i + 1
       IN
    IF i = Len(r)
      THEN Out(Tk(tk.scratch \o StrFrom(d, begin), CopyingString, ByteLen(d)),
               ErrRes("NeedMoreData", 0))
    ELSE IF r[i + 1] = Quote
      THEN IF SliceOk(d, begin, next - 1)
             THEN Out(Tk(tk.scratch, Base, next),
                      OkRes("JString", StrSlice(d, begin, next - 1), "data"))
             ELSE Out(Tk(tk.scratch, Base, next), PanicRes)
    ELSE IF SliceOk(d, begin, next - 1)
      THEN tokenize_start_escaping(
             Tk(tk.scratch \o StrSlice(d, begin, next - 1), StartEscaping, next), d)
      ELSE Out(Tk(tk.scratch, tk.state, next), PanicRes)

tokenize_zero_copy_string(tk, d) ==
  IF ~FromOk(d, tk.index) THEN Out(tk, PanicRes)
  ELSE LET begin == tk.index
           r == StrFrom(d, tk.index)
           i == FirstIn(r, {Quote, Backslash})
           next == tk.index + i + 1
       IN
    IF i = Len(r)
      THEN Out(Tk(StrFrom(d, begin), CopyingString, ByteLen(d)), ErrRes("NeedMoreData", 0))
    ELSE IF r[i + 1] = Quote
      THEN IF SliceOk(d, begin, next - 1)
             THEN Out(Tk(tk.scratch, Base, next),
                      OkRes("JString", StrSlice(d, begin, next - 1), "data"))
             ELSE Out(Tk(tk.scratch, Base, next), PanicRes)
    ELSE IF SliceOk(d, begin, next - 1)
      THEN tokenize_start_escaping(
             Tk(StrSlice(d, begin, next - 1), StartEscaping, next), d)
      ELSE Out(Tk(<<>>, tk.state, next), PanicRes)

\* tokenize_base moving the cursor past the character it rejects
tokenize_base_skips(tk, d) ==
  IF ~FromOk(d, tk.index) THEN Out(tk, PanicRes)
  ELSE LET r == StrFrom(d, tk.index)
           i == FirstIn(r, {c \in Char : ~is_whitespace(c)})
           begin == tk.index + i
           next == tk.index + i + 1
       IN
    IF i = Len(r) THEN Out(tk, ErrRes("NeedMoreData", 0))
    ELSE IF r[i + 1] \in Structural
      THEN IF SliceOk(d, begin, next)
             THEN Out(Tk(tk.scratch, tk.state, next),
                      OkRes(JTOf(r[i + 1]), StrSlice(d, begin, next), "data"))
             ELSE Out(Tk(tk.scratch, tk.state, next), PanicRes)
    ELSE IF r[i + 1] = Quote
      THEN tokenize_zero_copy_string(Tk(tk.scratch, ZeroCopyString, next), d)
    ELSE Out(Tk(tk.scratch, tk.state, next), ErrRes("WrongFormat", tk.index + i))

tokenize_base(tk, d) ==
  IF ~FromOk(d, tk.index) THEN Out(tk, PanicRes)
  ELSE LET r == StrFrom(d, tk.index)
           i == FirstIn(r, {c \in Char : ~is_whitespace(c)})
           begin == tk.index + i
           next == tk.index + i + 1
       IN
    IF i = Len(r) THEN Out(tk, ErrRes("NeedMoreData", 0))
    ELSE IF r[i + 1] \in Structural
      THEN IF SliceOk(d, begin, next)
             THEN Out(Tk(tk.scratch, tk.state, next),
                      OkRes(JTOf(r[i + 1]), StrSlice(d, begin, next), "data"))
             ELSE Out(Tk(tk.scratch, tk.state, next), PanicRes)
    ELSE IF r[i + 1] = Quote
      THEN tokenize_zero_copy_string(Tk(tk.scratch, ZeroCopyString, next), d)
    ELSE Out(tk, ErrRes("WrongFormat", tk.index + i))

tokenize(tk, d) ==
  CASE tk.state = Base -> tokenize_base(tk, d)
    [] tk.state = ZeroCopyString -> tokenize_zero_copy_string(tk, d)
    [] tk.state = StartEscaping -> tokenize_start_escaping(tk, d)
    [] tk.state = CopyingString -> tokenize_copying_string(tk, d)
    [] tk.state[1] = "ReadingHex" -> tokenize_reading_hex(tk, d)

----------------------------------------------------------------------------
(* Parser *)

\* Result<PR, PE>: PR = (F, Option<&str>), the option as a sequence of 0 or 1
NoPRes == [kind |-> "None", f |-> "", text |-> <<>>, err |-> "", pos |-> 0]

OkPRes(f, text) == [kind |-> "Ok", f |-> f, text |-> text, err |-> "", pos |-> 0]

\* impl From<TokenizerErrors> for PE keeps the variant and its offset
ErrPRes(err, pos) == [kind |-> "Err", f |-> "", text |-> <<>>, err |-> err, pos |-> pos]

PanicPRes == [kind |-> "Panic", f |-> "", text |-> <<>>, err |-> "", pos |-> 0]

\* self.stack.last(), "None" for an empty stack
last(st) == IF st = <<>> THEN "None" ELSE st[Len(st)]

\* the stack and the result of the match on (state, token.jt)
parse_match(st, tok, ix) ==
  LET top == last(st) IN
  CASE top = "None" /\ tok.jt = "OpenObject" ->
         [stack |-> Append(st, "InObject"), pres |-> OkPRes("InObject", <<>>)]
    [] top = "None" /\ tok.jt = "OpenArray" ->
         [stack |-> Append(st, "InArray"), pres |-> OkPRes("InArray", <<>>)]
    [] top = "None" /\ tok.jt = "JString" ->
         [stack |-> st, pres |-> OkPRes("JString", <<tok.slice>>)]
    [] top = "None" /\ tok.jt = "JNumber" ->
         [stack |-> st, pres |-> OkPRes("JNumber", <<>>)]
    [] top = "None" /\ tok.jt \notin {"OpenObject", "OpenArray", "JString", "JNumber"} ->
         [stack |-> st, pres |-> ErrPRes("WrongFormat", ix)]
    [] top = "InObject" /\ tok.jt = "JString" ->
         [stack |-> Append(st, "Key"), pres |-> OkPRes("JString", <<tok.slice>>)]
    [] top = "InObjectAfterKey" /\ tok.jt = "JString" ->
         [stack |-> SubSeq(st, 1, Len(st) - 1), pres |-> OkPRes("JString", <<tok.slice>>)]
    [] OTHER -> [stack |-> st, pres |-> PanicPRes]

\* parse with the From conversion turning every tokenizer error into
\* WrongFormat
parse_fatal(st, tk, d) ==
  LET o == tokenize(tk, d) IN
  IF o.res.kind = "Err"
    THEN [stack |-> st, tk |-> o.tk, res |-> o.res, pres |-> ErrPRes("WrongFormat", o.res.pos)]
  ELSE IF o.res.kind = "Panic"
    THEN [stack |-> st, tk |-> o.tk, res |-> o.res, pres |-> PanicPRes]
  ELSE LET m == parse_match(st, o.res, tk.index) IN
    [stack |-> m.stack, tk |-> o.tk, res |-> o.res, pres |-> m.pres]

\* Parser::parse: the tokenizer as left by tokenize, its result, and the match
parse(st, tk, d) ==
  LET o == tokenize(tk, d) IN
  IF o.res.kind = "Err"
    THEN [stack |-> st, tk |-> o.tk, res |-> o.res, pres |-> ErrPRes(o.res.err, o.res.pos)]
  ELSE IF o.res.kind = "Panic"
    THEN [stack |-> st, tk |-> o.tk, res |-> o.res, pres |-> PanicPRes]
  ELSE LET m == parse_match(st, o.res, tk.index) IN
    [stack |-> m.stack, tk |-> o.tk, res |-> o.res, pres |-> m.pres]

----------------------------------------------------------------------------
(* Documents and the caller *)

SeqUpTo(S, n) == UNION {[1..k -> S] : k \in 0..n}

\* a string literal (closed or not) and what follows it
StringDocs == {<<Quote>> \o b : b \in SeqUpTo(StrChar, MaxBody)}

\* punctuation, whitespace, quotes and stray characters
StructDocs == SeqUpTo(StructChar, MaxStruct)

Docs == StringDocs \cup StructDocs

\* what the parser's documents are made of: punctuation, a blank, a string
\* literal
Lexeme == {<<c>> : c \in Structural \cup {" "}} \cup {<<Quote, "n", Quote>>}

RECURSIVE Flatten(_)
Flatten(ls) == IF ls = <<>> THEN <<>> ELSE Head(ls) \o Flatten(Tail(ls))

ParserDocs == {Flatten(ls) : ls \in SeqUpTo(Lexeme, MaxLexemes)}

\* the tokenizer and the stack as a call finds them
Entry(sc, st, ix, stk) == [scratch |-> sc, state |-> st, index |-> ix, stack |-> stk]

\* Tokenizer { scratch: String::new(), state: Base, index: 0 }, an empty stack
Start ==
  /\ rest = doc
  /\ data = <<>>
  /\ scratch = <<>>
  /\ state = Base
  /\ index = 0
  /\ stack = <<>>
  /\ res = NoRes
  /\ pres = NoPRes
  /\ op = "init"
  /\ pre = Entry(<<>>, Base, 0, <<>>)
  /\ tokens = <<>>
  /\ events = <<>>
  /\ fatal = FALSE

\* the caller drives a Tokenizer, as the tests do
Init == doc \in Docs /\ Start

\* the caller drives a Parser
InitParser == doc \in ParserDocs /\ Start

\* the errors that are not NeedMoreData (EndOfData is never constructed)
IsFatal(r) == r.kind = "Err" /\ r.err \in {"WrongFormat", "WrongEscapeSequence"}

Alive == res.kind # "Panic" /\ pres.kind # "Panic"

\* the caller takes the next k characters of the document as a new buffer and
\* resets the cursor (tokenizer.index = 0), before the first call or after
\* NeedMoreData
Feed ==
  /\ Alive
  /\ op = "init" \/ (op \in {"tokenize", "parse"} /\ res.kind = "Err" /\ res.err = "NeedMoreData")
  /\ \E k \in 1..Len(rest) :
       /\ data' = SubSeq(rest, 1, k)
       /\ rest' = SubSeq(rest, k + 1, Len(rest))
  /\ index' = 0
  /\ op' = "feed"
  /\ UNCHANGED <<doc, scratch, state, stack, res, pres, pre, tokens, events, fatal>>

\* tokenizer.tokenize(data)
Tokenize ==
  /\ Alive
  /\ op' = "tokenize"
  /\ pre' = Entry(scratch, state, index, stack)
  /\ LET o == tokenize(Tk(scratch, state, index), data) IN
       /\ scratch' = o.tk.scratch
       /\ state' = o.tk.state
       /\ index' = o.tk.index
       /\ res' = o.res
       /\ tokens' = IF o.res.kind = "Ok" THEN Append(tokens, o.res) ELSE tokens
       /\ fatal' = (fatal \/ IsFatal(o.res))
  /\ UNCHANGED <<doc, rest, data, stack, pres, events>>

\* parser.parse(data)
Parse ==
  /\ Alive
  /\ op' = "parse"
  /\ pre' = Entry(scratch, state, index, stack)
  /\ LET o == parse(stack, Tk(scratch, state, index), data) IN
       /\ scratch' = o.tk.scratch
       /\ state' = o.tk.state
       /\ index' = o.tk.index
       /\ stack' = o.stack
       /\ res' = o.res
       /\ pres' = o.pres
       /\ tokens' = IF o.res.kind = "Ok" THEN Append(tokens, o.res) ELSE tokens
       /\ events' = IF o.pres.kind = "Ok" THEN Append(events, o.pres) ELSE events
       /\ fatal' = (fatal \/ IsFatal(o.pres))
  /\ UNCHANGED <<doc, rest, data>>

Next == Feed \/ Tokenize

Spec == Init /\ [][Next]_vars

NextParser == Feed \/ Parse

SpecParser == InitParser /\ [][NextParser]_vars

----------------------------------------------------------------------------
(* What a document says, read character by character from the JSON grammar *)
(* of the specification, without cursors or buffers                        *)

\* the fixed single-character escape table of the specification
Unescape(c) ==
  CASE c = Quote -> Quote
    [] c = Backslash -> Backslash
    [] c = "/" -> "/"
    [] c = "b" -> "0x08"
    [] c = "f" -> "0x0c"
    [] c = "n" -> "LF"
    [] c = "r" -> "CR"
    [] c = "t" -> "TAB"

InTable(c) == c \in {Quote, Backslash, "/", "b", "f", "n", "r", "t"}

RECURSIVE ScanBody(_, _, _)
(* the text after an opening quote: "closed" with the decoded text and what *)
(* follows the closing quote, "open" when the text ends first, "escaping"   *)
(* when it ends right after a backslash, "bad" at an escape outside the     *)
(* table, "unicode" at \u                                                   *)
ScanBody(s, acc, esc) ==
  IF s = <<>> THEN [kind |-> "open", text |-> acc, esc |-> esc, rest |-> <<>>]
  ELSE IF Head(s) = Quote
    THEN [kind |-> "closed", text |-> acc, esc |-> esc, rest |-> Tail(s)]
  ELSE IF Head(s) = Backslash
    THEN IF Len(s) = 1 THEN [kind |-> "escaping", text |-> acc, esc |-> TRUE, rest |-> <<>>]
         ELSE IF InTable(s[2])
           THEN ScanBody(SubSeq(s, 3, Len(s)), Append(acc, Unescape(s[2])), TRUE)
         ELSE IF s[2] = "u"
           THEN [kind |-> "unicode", text |-> acc, esc |-> TRUE, rest |-> Tail(s)]
         ELSE [kind |-> "bad", text |-> acc, esc |-> TRUE, rest |-> Tail(s)]
  ELSE ScanBody(Tail(s), Append(acc, Head(s)), esc)

Body(s) == ScanBody(s, <<>>, FALSE)

\* a token as the specification sees it: its kind, its text, and whether the
\* literal had an escape
Lexed(jt, text, esc) == [jt |-> jt, text |-> text, esc |-> esc]

RECURSIVE ExpectedTokens(_)
\* the tokens of a document in document order, up to the first place that is
\* not a complete token
ExpectedTokens(s) ==
  IF s = <<>> THEN <<>>
  ELSE IF is_whitespace(Head(s)) THEN ExpectedTokens(Tail(s))
  ELSE IF Head(s) \in Structural
    THEN <<Lexed(JTOf(Head(s)), <<Head(s)>>, FALSE)>> \o ExpectedTokens(Tail(s))
  ELSE IF Head(s) = Quote /\ Body(Tail(s)).kind = "closed"
    THEN <<Lexed("JString", Body(Tail(s)).text, Body(Tail(s)).esc)>>
           \o ExpectedTokens(Body(Tail(s)).rest)
  ELSE <<>>

RECURSIVE LexClean(_)
\* the document is whitespace and complete tokens only
LexClean(s) ==
  IF s = <<>> THEN TRUE
  ELSE IF is_whitespace(Head(s)) \/ Head(s) \in Structural THEN LexClean(Tail(s))
  ELSE IF Head(s) = Quote /\ Body(Tail(s)).kind = "closed"
    THEN LexClean(Body(Tail(s)).rest)
  ELSE FALSE

RECURSIVE EscapesInTable(_)
\* every backslash of the text is followed by a character of the table (or
\* ends the text)
EscapesInTable(s) ==
  IF s = <<>> THEN TRUE
  ELSE IF Head(s) = Backslash
    THEN Len(s) = 1 \/ (InTable(s[2]) /\ EscapesInTable(SubSeq(s, 3, Len(s))))
  ELSE EscapesInTable(Tail(s))

\* the tokens as <<kind, text>> pairs
Texts(ts) == [k \in 1..Len(ts) |-> <<ts[k].jt, ts[k].slice>>]

Wanted(ls) == [k \in 1..Len(ls) |-> <<ls[k].jt, ls[k].text>>]

IsPrefix(a, b) == Len(a) <= Len(b) /\ a = SubSeq(b, 1, Len(a))

RECURSIVE RunWhole(_, _)
\* the tokens of successive tokenize calls on one buffer, until a call
\* returns no token
RunWhole(tk, d) ==
  LET o == tokenize(tk, d) IN
  IF o.res.kind = "Ok" THEN <<o.res>> \o RunWhole(o.tk, d) ELSE <<>>

\* the whole document tokenized as one buffer by a new Tokenizer
Whole == RunWhole(Tk(<<>>, Base, 0), doc)

\* the buffer from the cursor the last call found
TextAtEntry == StrFrom(data, pre.index)

Called == op = "tokenize"

RECURSIVE SkipWs(_)
SkipWs(s) == IF s # <<>> /\ is_whitespace(Head(s)) THEN SkipWs(Tail(s)) ELSE s

\* the last call found a string literal to scan: one that opens at the first
\* character after the whitespace (Base), or one under way
InLiteral ==
  /\ Called
  /\ FromOk(data, pre.index)
  /\ \/ pre.state \in {CopyingString, StartEscaping}
     \/ pre.state = Base /\ SkipWs(TextAtEntry) # <<>> /\ Head(SkipWs(TextAtEntry)) = Quote

\* what the buffer holds of that literal, read by the grammar
Lit ==
  CASE pre.state = Base -> Body(Tail(SkipWs(TextAtEntry)))
    [] pre.state = CopyingString -> Body(TextAtEntry)
    [] pre.state = StartEscaping -> Body(<<Backslash>> \o TextAtEntry)

\* the decoded text of the literal up to where the grammar stopped reading
LitText == IF pre.state = Base THEN Lit.text ELSE pre.scratch \o Lit.text

NeedMore == res.kind = "Err" /\ res.err = "NeedMoreData"

----------------------------------------------------------------------------
(* Claims *)

(* C1: resumption equivalence.  For a document that is a string literal    *)
(* whose escapes are all in the fixed table, however the document is cut   *)
(* into buffers, each JString token returned has the text of the token at  *)
(* the same place when the whole document is tokenized as one buffer.      *)
C1_ResumptionEquivalence ==
  (doc \in StringDocs /\ EscapesInTable(doc)) =>
     \A k \in 1..Len(tokens) :
        tokens[k].jt = "JString" =>
          /\ k <= Len(Whole)
          /\ Whole[k].jt = "JString"
          /\ Whole[k].slice = tokens[k].slice

(* C2: no token is lost, duplicated or reordered.  The tokens returned so  *)
(* far are the first tokens of the document, in document order, and once   *)
(* the whole of a document of complete tokens has been handed over and the *)
(* tokenizer asks for more, they are all of them.                          *)
C2_TokensInDocumentOrder ==
  /\ IsPrefix(Texts(tokens), Wanted(ExpectedTokens(doc)))
  /\ (Called /\ rest = <<>> /\ LexClean(doc)
        /\ res.kind = "Err" /\ res.err = "NeedMoreData")
       => Texts(tokens) = Wanted(ExpectedTokens(doc))

(* C3: zero-copy.  A call in Base that finds, after whitespace, a string   *)
(* literal without escapes that lies whole in its buffer returns a JString *)
(* whose slice is the text between the quotes and borrows from the buffer, *)
(* not from scratch.                                                       *)
C3_ZeroCopy ==
  (InLiteral /\ pre.state = Base /\ Lit.kind = "closed" /\ ~Lit.esc) =>
     /\ res.kind = "Ok"
     /\ res.jt = "JString"
     /\ res.slice = Lit.text
     /\ res.from = "data"

(* C4: escape decoding.  A call that scans a literal with escapes of the   *)
(* table only returns, at the closing quote, a JString whose text is the   *)
(* literal's with each backslash pair replaced by its one character and    *)
(* every other character kept in order; when the buffer ends first it asks *)
(* for more with that text in scratch, in CopyingString (StartEscaping     *)
(* right after a backslash).                                               *)
C4_EscapeDecoding ==
  (InLiteral /\ Lit.esc) =>
     /\ Lit.kind = "closed" =>
          res.kind = "Ok" /\ res.jt = "JString" /\ res.slice = LitText /\ state = Base
     /\ Lit.kind = "open" =>
          NeedMore /\ scratch = LitText /\ state = CopyingString
     /\ Lit.kind = "escaping" =>
          NeedMore /\ scratch = LitText /\ state = StartEscaping

(* C5: invalid escape.  A call that scans a literal up to a backslash      *)
(* followed by a character that is neither in the table nor u returns      *)
(* WrongEscapeSequence, never a token, with the backslash in this buffer   *)
(* or at the end of the one before; scratch holds the text before the      *)
(* backslash and nothing for the offending character.                      *)
C5_InvalidEscape ==
  (InLiteral /\ Lit.kind = "bad") =>
     /\ res.kind = "Err"
     /\ res.err = "WrongEscapeSequence"
     /\ scratch = LitText

(* C6: Base skips whitespace and returns the first structural character as *)
(* a token of its kind whose slice is that one character, with the cursor  *)
(* just past it; no WhiteSpace token is returned.                          *)
C6_BaseStructural ==
  /\ \A k \in 1..Len(tokens) : tokens[k].jt # "WhiteSpace"
  /\ (Called /\ pre.state = Base /\ FromOk(data, pre.index)
        /\ SkipWs(TextAtEntry) # <<>> /\ Head(SkipWs(TextAtEntry)) \in Structural) =>
       /\ res.kind = "Ok"
       /\ res.jt = JTOf(Head(SkipWs(TextAtEntry)))
       /\ res.slice = <<Head(SkipWs(TextAtEntry))>>
       /\ res.from = "data"
       /\ index = pre.index + ByteLen(TextAtEntry) - ByteLen(SkipWs(TextAtEntry)) + 1

(* C7: once every token of the buffer has been returned, a further call    *)
(* returns NeedMoreData and no repeated or spurious token, and the same    *)
(* call again returns the same and leaves state, cursor and scratch alone. *)
(* Stated for a document of complete tokens handed over as one buffer.     *)
C7_ExhaustedBuffer ==
  /\ (Called /\ data = doc /\ LexClean(doc)) =>
       /\ Len(tokens) <= Len(ExpectedTokens(doc))
       /\ (res.kind # "Ok" /\ Len(tokens) = Len(ExpectedTokens(doc))) => NeedMore
  /\ (Called /\ NeedMore) =>
       tokenize(Tk(scratch, state, index), data)
         = Out(Tk(scratch, state, index), ErrRes("NeedMoreData", 0))

Parsed == op = "parse"

(* C8: parse over the document {} gives a begin-object event, then an      *)
(* end-object event with the stack empty again, then a clean end of        *)
(* document; no call aborts.                                               *)
C8_EmptyObject ==
  doc = <<"{", "}">> =>
     /\ pres.kind # "Panic"
     /\ Len(events) >= 1 => events[1].f = "InObject"
     /\ Len(tokens) = 2 => (Len(events) = 2 /\ stack = <<>>)
     /\ (Parsed /\ Len(tokens) = 2 /\ rest = <<>> /\ pre.index = ByteLen(data)) =>
          (pres.kind = "Err" /\ pres.err \in {"NeedMoreData", "EndOfData"})

(* C9: a closing bracket or brace that does not match the top frame (the   *)
(* stack is empty, or ] comes while the top frame is InObject, or } while  *)
(* it is InArray) makes parse return an error: no abort, no Ok.            *)
C9_UnbalancedClose ==
  (Parsed /\ res.kind = "Ok"
     /\ \/ res.jt \in {"CloseArray", "CloseObject"} /\ last(pre.stack) = "None"
        \/ res.jt = "CloseArray" /\ last(pre.stack) = "InObject"
        \/ res.jt = "CloseObject" /\ last(pre.stack) = "InArray") =>
     pres.kind = "Err"

\* the (top frame, token) pairs the grammar of the specification accepts
Accepted ==
  ({"None"} \X {"OpenObject", "OpenArray", "JString", "JNumber"})
    \cup ({"InObject"} \X {"JString", "CloseObject"})
    \cup ({"Key", "InObjectAfterKey"} \X {"Colon", "JString", "JNumber", "OpenObject", "OpenArray"})
    \cup ({"InArray"} \X {"JString", "JNumber", "OpenObject", "OpenArray", "Comma", "CloseArray"})

(* C10: for every reachable (top frame, token) pair that is not an         *)
(* accepted transition parse returns a Result, and it is an error value.   *)
C10_UnexpectedToken ==
  (Parsed /\ res.kind = "Ok" /\ <<last(pre.stack), res.jt>> \notin Accepted) =>
     pres.kind = "Err"

(* C11: fatal errors are final.  Once parse has returned WrongFormat or    *)
(* WrongEscapeSequence for a document, no later parse of that document     *)
(* returns Ok: the parser does not go on with the tokens that follow.      *)
C11_FatalIsFinal == (Parsed /\ fatal) => pres.kind # "Ok"

(* C12: NeedMoreData passes through.  When the tokenizer returns           *)
(* NeedMoreData, parse returns NeedMoreData, not a fatal error, and leaves *)
(* the stack as it found it.                                               *)
C12_NeedMoreDataPropagates ==
  (Parsed /\ NeedMore) =>
     /\ pres.kind = "Err"
     /\ pres.err = "NeedMoreData"
     /\ stack = pre.stack

\* parse asked for more inside a nested context
C12_Witness == Parsed /\ NeedMore /\ pres.err = "NeedMoreData" /\ stack # <<>>

(* C13: a string literal met while the top frame is InObject is a key:     *)
(* parse pushes a key frame on top of InObject and returns an event of the *)
(* object-key kind, not the kind of a string value, with the key's text.   *)
C13_ObjectKey ==
  (Parsed /\ res.kind = "Ok" /\ res.jt = "JString" /\ last(pre.stack) = "InObject") =>
     /\ pres.kind = "Ok"
     /\ pres.f = "Key"
     /\ pres.text = <<res.slice>>
     /\ stack = Append(pre.stack, "Key")

Returned == Called /\ res.kind \in {"Ok", "Err"}

(* C14 as claimed: whenever tokenize returns a token the state is Base; a  *)
(* state other than Base is left by a returning call only when that call   *)
(* returned NeedMoreData; ZeroCopyString is never left by a returning call. *)
C14_StateAsClaimed ==
  Returned =>
     /\ res.kind = "Ok" => state = Base
     /\ state # Base => NeedMore
     /\ state # ZeroCopyString

(* C14 amended: whenever tokenize returns a token the state is Base; a     *)
(* state other than Base is left by a returning call only when that call   *)
(* returned NeedMoreData (CopyingString or StartEscaping) or               *)
(* WrongEscapeSequence (StartEscaping); ZeroCopyString and ReadingHex are  *)
(* never left by a returning call.                                         *)
C14_StateInvariant ==
  Returned =>
     /\ res.kind = "Ok" => state = Base
     /\ state # Base =>
          \/ NeedMore /\ state \in {CopyingString, StartEscaping}
          \/ res.kind = "Err" /\ res.err = "WrongEscapeSequence" /\ state = StartEscaping
     /\ state # ZeroCopyString

\* a call returned WrongEscapeSequence and left StartEscaping behind
C14_Witness ==
  Returned /\ res.err = "WrongEscapeSequence" /\ state = StartEscaping

(* C15: when the buffer ends inside a string literal, tokenize returns     *)
(* NeedMoreData with the state CopyingString (StartEscaping when the       *)
(* buffer ends right after a backslash), the cursor at the buffer's length *)
(* and scratch equal to the decoded text of the literal read so far, the   *)
(* earlier buffers included.                                               *)
C15_PausedInLiteral ==
  (InLiteral /\ Lit.kind \in {"open", "escaping"}) =>
     /\ NeedMore
     /\ state = IF Lit.kind = "escaping" THEN StartEscaping ELSE CopyingString
     /\ index = ByteLen(data)
     /\ scratch = LitText

\* the last call, had it found an empty scratch
CleanCall == tokenize(Tk(<<>>, pre.state, pre.index), data)

(* C16: scratch is cleared at the start of each new literal.  A call in    *)
(* Base that opens a literal and leaves it in scratch (paused, or returned *)
(* as a token served from scratch) leaves in scratch, and returns, what it *)
(* would have with an empty scratch on entry: nothing of an earlier        *)
(* literal remains; a call that goes on with a literal only appends.       *)
C16_ScratchCleared ==
  /\ (Returned /\ pre.state = Base
        /\ (state \in {CopyingString, StartEscaping} \/ res.from = "scratch")) =>
       /\ scratch = CleanCall.tk.scratch
       /\ res = CleanCall.res
  /\ (Returned /\ pre.state \in {CopyingString, StartEscaping}) =>
       IsPrefix(pre.scratch, scratch)

\* a second token served from scratch after a first one that left text there
C16_Witness ==
  /\ Called
  /\ Len(tokens) = 2
  /\ tokens[1].from = "scratch" /\ tokens[1].slice # <<>>
  /\ tokens[2].from = "scratch" /\ tokens[2].slice = <<>>
  /\ res = tokens[2]

\* the offset in the buffer of the first character after the whitespace the
\* last call found at its cursor
TokenOffset == ByteLen(data) - ByteLen(SkipWs(TextAtEntry))

(* C17: the position of a fatal error is the offset of the offending       *)
(* input.  The tokenizer's WrongFormat(o) has o at the unrecognized        *)
(* character after the skipped whitespace; WrongEscapeSequence(o) has o at *)
(* the invalid character after the backslash; the WrongFormat(o) that      *)
(* parse makes for a token not allowed with an empty stack has o at that   *)
(* token.                                                                  *)
C17_ErrorPosition ==
  /\ (op \in {"tokenize", "parse"} /\ res.kind = "Err" /\ res.err = "WrongFormat") =>
       /\ FromOk(data, pre.index)
       /\ res.pos = TokenOffset
  /\ (op \in {"tokenize", "parse"} /\ res.kind = "Err" /\ res.err = "WrongEscapeSequence") =>
       /\ InLiteral
       /\ Lit.kind = "bad"
       /\ res.pos = ByteLen(data) - ByteLen(Lit.rest)
  /\ (Parsed /\ res.kind = "Ok" /\ pre.stack = <<>>
        /\ pres.kind = "Err" /\ pres.err = "WrongFormat") =>
       pres.pos = TokenOffset

\* the last call was in Base and found, after the whitespace, a character
\* that starts no token
Unrecognized ==
  /\ Called
  /\ pre.state = Base
  /\ FromOk(data, pre.index)
  /\ SkipWs(TextAtEntry) # <<>>
  /\ Head(SkipWs(TextAtEntry)) \notin Structural \cup {Quote}

(* C18: in Base a first non-whitespace character that is neither           *)
(* structural nor a double quote makes tokenize return WrongFormat; the    *)
(* call leaves state, cursor and scratch as they were on entry, and the    *)
(* same call on the same buffer returns the same error.                    *)
C18_WrongFormatIdempotent ==
  Unrecognized =>
     /\ res.kind = "Err" /\ res.err = "WrongFormat"
     /\ state = Base
     /\ index = pre.index
     /\ scratch = pre.scratch
     /\ tokenize(Tk(scratch, state, index), data) = Out(Tk(scratch, state, index), res)

\* such a call with the cursor past an earlier token and whitespace before
\* the character
C18_Witness ==
  /\ Unrecognized
  /\ pre.index > 0
  /\ TextAtEntry # SkipWs(TextAtEntry)
  /\ res.err = "WrongFormat"

\* the last call read a \u escape of the literal it was scanning
AtUnicodeEscape == InLiteral /\ Lit.kind = "unicode"

(* C19: a \u escape is handled by the unicode-escape state.  A call that   *)
(* reads \u in a literal consumes the u and enters ReadingHex(0, 4), and   *)
(* returns a token, NeedMoreData or a malformed-input error; once in       *)
(* ReadingHex a call returns one of these too.                             *)
C19_UnicodeEscape ==
  /\ AtUnicodeEscape => res.kind \in {"Ok", "Err"}
  /\ (Called /\ pre.state[1] = "ReadingHex") => res.kind \in {"Ok", "Err"}

(* C20: the cursor.  A call entered with the cursor within the buffer      *)
(* returns with the cursor no lower and still within the buffer; after a   *)
(* token the cursor is just past the characters of that token, after a     *)
(* pause inside a literal it is at the end of the buffer, and after        *)
(* NeedMoreData or WrongFormat in Base it is where it was.                 *)
C20_Cursor ==
  (Returned /\ pre.index <= ByteLen(data)) =>
     /\ pre.index <= index
     /\ index <= ByteLen(data)
     /\ (res.kind = "Ok" /\ res.jt = "JString") =>
          /\ InLiteral
          /\ Lit.kind = "closed"
          /\ index = ByteLen(data) - ByteLen(Lit.rest)
     /\ (res.kind = "Ok" /\ res.jt # "JString") => index = TokenOffset + 1
     /\ (NeedMore /\ InLiteral) => index = ByteLen(data)
     /\ (pre.state = Base /\ res.kind = "Err" /\ ~InLiteral) => index = pre.index

====
